---- MODULE Spec2Model ----
(***************************************************************************)
(* Model of the jitsuu client search engine (client/src/db.ts) and of the  *)
(* ranking rules documented in the client's search notes.                  *)
(*                                                                         *)
(* Text is modelled as a sequence of UTF-16 code units (all characters     *)
(* used are in the BMP), so that script conversion, trimming, LIKE         *)
(* matching and truncation are computed the way the code computes them.    *)
(***************************************************************************)
EXTENDS Integers, Sequences, FiniteSets, TLC

VARIABLES db, query, jikeiFilters, pc, fieldRows, result, rankGroup, ranked,
          \* the page (main.ts)
          phase,            \* "loading", "ready" or "failed": where init() stands
          dbOpen,           \* the module's db handle is not null
          searchInput,      \* searchInput.value
          disabled,         \* searchInput.disabled
          jikeiOptions, selectedJikei, searchTimeout, applyingUrlState,
          timers,           \* the timeouts of the window that are pending
          url,              \* the q and k parameters of window.location
          shown             \* what the last runSearch rendered

engineVars == <<db, query, jikeiFilters, pc, fieldRows, result, rankGroup, ranked>>

pageVars == <<phase, dbOpen, searchInput, disabled, jikeiOptions, selectedJikei,
              searchTimeout, applyingUrlState, timers, url, shown>>

vars == <<engineVars, pageVars>>

(***************************************************************************)
(* Bounds of the model.                                                    *)
(***************************************************************************)
\* largest number of rows of the jitsu_entries table in a modelled store
MaxStore == 3

\* LIMIT handed to runQuery by searchEntries
Limit == 200

(***************************************************************************)
(* Characters (code units) and strings.                                    *)
(***************************************************************************)
Ch == [ space |-> 32, percent |-> 37, lparen |-> 40, rparen |-> 41,
        backslash |-> 92, underscore |-> 95,
        hiraFirst |-> 12353, hiraLast |-> 12438,      \* U+3041 .. U+3096
        kataFirst |-> 12449, kataLast |-> 12534,      \* U+30A1 .. U+30F6
        kanaShift |-> 96,                             \* 0x60
        cjkFirst |-> 19968, cjkLast |-> 40959,        \* U+4E00 .. U+9FFF
        middleDot |-> 12539,                          \* U+30FB, the segment delimiter
        fwLparen |-> 65288, fwRparen |-> 65289 ]      \* U+FF08, U+FF09

\* code units String.prototype.trim removes (WhiteSpace and LineTerminator)
WhiteSpace == {9, 10, 11, 12, 13, 32, 160, 5760, 8232, 8233, 8239, 8287, 12288, 65279}
                  \cup (8192 .. 8202)

Range(s) == { s[i] : i \in DOMAIN s }

Min(a, b) == IF a <= b THEN a ELSE b

\* the sequence s without repeated elements, first occurrences kept
\* (insertion order of a JavaScript Set)
Dedup(s) ==
    LET keep(i) == \A j \in 1 .. (i - 1) : s[j] # s[i]
        idx == { i \in DOMAIN s : keep(i) }
        F[n \in 0 .. Len(s)] ==
            IF n = 0 THEN <<>>
            ELSE IF n \in idx THEN Append(F[n - 1], s[n]) ELSE F[n - 1]
    IN F[Len(s)]

\* value.trim()
trim(value) ==
    LET solid == { i \in DOMAIN value : value[i] \notin WhiteSpace }
    IN IF solid = {} THEN <<>>
       ELSE LET lo == CHOOSE i \in solid : \A j \in solid : i <= j
                hi == CHOOSE i \in solid : \A j \in solid : j <= i
            IN SubSeq(value, lo, hi)

\* value.replace(/[\u3041-\u3096]/g, c => c + 0x60)
toKatakana(value) ==
    [ i \in DOMAIN value |->
        IF value[i] >= Ch.hiraFirst /\ value[i] <= Ch.hiraLast
        THEN value[i] + Ch.kanaShift ELSE value[i] ]

\* value.replace(/[\u30a1-\u30f6]/g, c => c - 0x60)
toHiragana(value) ==
    [ i \in DOMAIN value |->
        IF value[i] >= Ch.kataFirst /\ value[i] <= Ch.kataLast
        THEN value[i] - Ch.kanaShift ELSE value[i] ]

\* buildQueryVariants with the katakana-to-hiragana conversion left out
buildQueryVariants_NoHiragana(value) ==
    LET trimmed == trim(value)
    IN IF Len(trimmed) = 0 THEN <<>>
       ELSE SelectSeq(Dedup(<<trimmed, toKatakana(trimmed)>>), LAMBDA item : Len(item) > 0)

\* buildQueryVariants without the empty-query return and the length filter
buildQueryVariants_KeepEmpty(value) ==
    LET trimmed == trim(value)
    IN Dedup(<<trimmed, toHiragana(trimmed), toKatakana(trimmed)>>)

\* buildQueryVariants collecting the variants in an array instead of a Set
buildQueryVariants_NoDedup(value) ==
    LET trimmed == trim(value)
    IN IF Len(trimmed) = 0 THEN <<>>
       ELSE SelectSeq(<<trimmed, toHiragana(trimmed), toKatakana(trimmed)>>,
                      LAMBDA item : Len(item) > 0)

buildQueryVariants(value) ==
    LET trimmed == trim(value)
    IN IF Len(trimmed) = 0 THEN <<>>
       ELSE SelectSeq(Dedup(<<trimmed, toHiragana(trimmed), toKatakana(trimmed)>>),
                      LAMBDA item : Len(item) > 0)

\* value.replace(/[\\%_]/g, m => '\\' + m)
RECURSIVE escapeLike(_)
escapeLike(value) ==
    IF Len(value) = 0 THEN <<>>
    ELSE LET c == Head(value)
         IN (IF c \in {Ch.backslash, Ch.percent, Ch.underscore}
             THEN <<Ch.backslash, c>> ELSE <<c>>) \o escapeLike(Tail(value))

\* SQLite folds only the ASCII letters when LIKE compares two characters
lower(c) == IF c >= 65 /\ c <= 90 THEN c + 32 ELSE c

\* text[j..] LIKE pattern[i..] ESCAPE '\'
RECURSIVE likeAt(_, _, _, _)
likeAt(pattern, i, text, j) ==
    IF i > Len(pattern) THEN j > Len(text)
    ELSE IF pattern[i] = Ch.percent
         THEN \E k \in j .. (Len(text) + 1) : likeAt(pattern, i + 1, text, k)
    ELSE IF pattern[i] = Ch.underscore
         THEN j <= Len(text) /\ likeAt(pattern, i + 1, text, j + 1)
    ELSE IF pattern[i] = Ch.backslash
         THEN /\ i + 1 <= Len(pattern)
              /\ j <= Len(text)
              /\ lower(pattern[i + 1]) = lower(text[j])
              /\ likeAt(pattern, i + 2, text, j + 1)
    ELSE /\ j <= Len(text)
         /\ lower(pattern[i]) = lower(text[j])
         /\ likeAt(pattern, i + 1, text, j + 1)

like(text, pattern) == likeAt(pattern, 1, text, 1)

\* the three code units the source text of runQuery holds between '%' and the
\* escaped variant: U+00E3 U+0192 U+00BB
PatternDelimiter == <<227, 402, 187>>

\* likePatterns with only the delimiter pattern
likePatterns_NoPrefix(variants) ==
    Dedup([ i \in 1 .. Len(variants) |->
              <<Ch.percent>> \o PatternDelimiter \o escapeLike(variants[i]) \o <<Ch.percent>> ])

\* patternList of runQuery: per variant `${escaped}%` and `%<delimiter>${escaped}%`
likePatterns(variants) ==
    Dedup([ i \in 1 .. (2 * Len(variants)) |->
              LET escaped == escapeLike(variants[(i + 1) \div 2])
              IN IF i % 2 = 1 THEN escaped \o <<Ch.percent>>
                 ELSE <<Ch.percent>> \o PatternDelimiter \o escaped \o <<Ch.percent>> ])

\* SQLite substr(s, 1, 2)
substr2(s) == SubSeq(s, 1, Min(2, Len(s)))

\* the filter clause with the comparison dropped
passesFilter_Always(row, filters) == TRUE

\* the filter clause comparing with the first label only
passesFilter_FirstOnly(row, filters) ==
    Len(filters) > 0 => substr2(row.jikei) = filters[1]

\* AND substr(jikei, 1, 2) IN (...), present only when jikeiFilters is non-empty
passesFilter(row, filters) ==
    Len(filters) > 0 => substr2(row.jikei) \in Range(filters)

\* BINARY collation: code point order, a proper prefix first
RECURSIVE strLess(_, _)
strLess(a, b) ==
    IF Len(b) = 0 THEN FALSE
    ELSE IF Len(a) = 0 THEN TRUE
    ELSE IF Head(a) # Head(b) THEN Head(a) < Head(b)
    ELSE strLess(Tail(a), Tail(b))

\* ORDER BY type = 'word', keyword; rows that tie keep the table's rowid order
orderBefore(a, b) ==
    LET wa == IF a.type = "word" THEN 1 ELSE 0
        wb == IF b.type = "word" THEN 1 ELSE 0
    IN IF wa # wb THEN wa < wb
       ELSE IF a.keyword # b.keyword THEN strLess(a.keyword, b.keyword)
       ELSE a.id < b.id

RECURSIVE orderRows(_)
orderRows(rows) ==
    IF rows = {} THEN <<>>
    ELSE LET first == CHOOSE r \in rows : \A o \in rows \ {r} : orderBefore(r, o)
         IN <<first>> \o orderRows(rows \ {first})

\* the selected columns: jikei is returned truncated
selectRow(e) == [ e EXCEPT !.jikei = substr2(e.jikei) ]

runQuery(store, field, variants, filters, limit) ==
    LET patternList == likePatterns(variants)
        hits == { e \in store :
                    /\ \E k \in 1 .. Len(patternList) : like(e[field], patternList[k])
                    /\ passesFilter(e, filters) }
        ordered == orderRows(hits)
        cut == SubSeq(ordered, 1, Min(limit, Len(ordered)))
    IN [ i \in 1 .. Len(cut) |-> selectRow(cut[i]) ]

Ids(rows) == { rows[i].id : i \in DOMAIN rows }

\* the inner loop of searchEntries without the seen check
claimRows_NoSeen(rows, seen) == rows

\* the inner loop of searchEntries: rows whose id is not yet seen, in order
RECURSIVE claimRows(_, _)
claimRows(rows, seen) ==
    IF Len(rows) = 0 THEN <<>>
    ELSE IF Head(rows).id \in seen THEN claimRows(Tail(rows), seen)
    ELSE <<Head(rows)>> \o claimRows(Tail(rows), seen \cup {Head(rows).id})

Fields == <<"keyword", "jion", "jikun">>

NoResults == [ keyword |-> <<>>, jion |-> <<>>, jikun |-> <<>> ]

\* the value of fieldRows in each iteration of the loop of searchEntries
queryRows(store, q, filters) ==
    LET variants == buildQueryVariants(q)
    IN IF Len(variants) = 0 THEN NoResults
       ELSE [ f \in Range(Fields) |-> runQuery(store, f, variants, filters, Limit) ]

\* searchEntries with the reading fields claimed before the keyword field
searchEntries_ReadingsFirst(store, q, filters) ==
    LET variants == buildQueryVariants(q)
    IN IF Len(variants) = 0 THEN NoResults
       ELSE LET rows == queryRows(store, q, filters)
                on == claimRows(rows.jion, {})
                kun == claimRows(rows.jikun, Ids(on))
                kw == claimRows(rows.keyword, Ids(on) \cup Ids(kun))
            IN [ keyword |-> kw, jion |-> on, jikun |-> kun ]

searchEntries(store, q, filters) ==
    LET variants == buildQueryVariants(q)
    IN IF Len(variants) = 0 THEN NoResults
       ELSE LET rows == queryRows(store, q, filters)
                kw == claimRows(rows.keyword, {})
                on == claimRows(rows.jion, Ids(kw))
                kun == claimRows(rows.jikun, Ids(kw) \cup Ids(on))
            IN [ keyword |-> kw, jion |-> on, jikun |-> kun ]

(***************************************************************************)
(* The stores, queries and filter lists the model draws from.              *)
(***************************************************************************)
S == [ empty  |-> <<>>,
       ka     |-> <<12363>>,                              \* hiragana ka
       kan    |-> <<12363, 12435>>,                       \* hiragana ka n
       an     |-> <<12354, 12435>>,                       \* hiragana a n
       akan   |-> <<12354, 12363, 12435>>,                \* hiragana a ka n
       kaKan  |-> <<12363, 12539, 12363, 12435>>,         \* hiragana ka . ka n
       KA     |-> <<12459>>,                              \* katakana ka
       KAN    |-> <<12459, 12531>>,                       \* katakana ka n
       KANGAN |-> <<12459, 12531, 12539, 12460, 12531>>,  \* katakana ka n . ga n
       ANKAN  |-> <<12450, 12531, 12539, 12459, 12531>>,  \* katakana a n . ka n
       yu     |-> <<30001>>,                              \* U+7531
       ri     |-> <<33673>>,                              \* U+8389
       yuri   |-> <<30001, 33673>>,
       kokuji |-> <<22269, 23383>>,                       \* U+56FD U+5B57
       kokujiLong |-> <<22269, 23383, 20307>>,            \* a label longer than two characters
       ryakutai   |-> <<30053, 20307>>,                   \* U+7565 U+4F53
       blank  |-> <<32>>,
       kanPadded |-> <<32, 12363, 12435, 12288>>,         \* " ka n" and an ideographic space
       aParen |-> <<12354, 65288, 12363, 65289, 12435>>,  \* hiragana a ( ka ) n, full-width parentheses
       percent |-> <<37>> ]

Entry(id, keyword, type, gaiji, jion, jikun, jikei) ==
    [ id |-> id, keyword |-> keyword, href |-> "/word", type |-> type,
      gaiji_img_src |-> gaiji, jion |-> jion, jikun |-> jikun, jikei |-> jikei ]

\* rows of jitsu_entries; id is the table's INTEGER PRIMARY KEY
Pool ==
    { Entry(1, S.yu,   "kanji", "",         S.KANGAN, S.empty, S.kokuji),
      Entry(2, S.ri,   "kanji", "",         S.ANKAN,  S.kan,   S.empty),
      Entry(3, S.KAN,  "kanji", "/img.svg", S.KAN,    S.empty, S.ryakutai),
      Entry(4, S.yuri, "word",  "",         S.empty,  S.kan,   S.kokujiLong),
      Entry(5, S.akan, "word",  "",         S.empty,  S.aParen, S.empty),
      Entry(6, S.KA,   "kanji", "",         S.empty,  S.kaKan, S.kokuji) }

Stores == { st \in SUBSET Pool : Cardinality(st) <= MaxStore }

Queries == { S.empty, S.blank, S.ka, S.KA, S.kan, S.KAN, S.kanPadded, S.an,
             S.yu, S.yuri, S.percent }

\* the labels a filter list can hold: the two-character labels getJikeiOptions
\* returns, and the alias the caller adds
Labels == { S.kokuji, S.ryakutai }

FilterLists ==
    { <<>> } \cup { <<l>> : l \in Labels }
             \cup { <<l, m>> : <<l, m>> \in { p \in Labels \X Labels : p[1] # p[2] } }

(***************************************************************************)
(* The page right after the module's top-level statements have run.        *)
(***************************************************************************)
NoUrl == [ q |-> <<>>, k |-> <<>> ]

NotShown == [ kind |-> "none", query |-> <<>>, selected |-> <<>>, filters |-> <<>>,
              result |-> NoResults ]

PageAtConstruction ==
    /\ phase = "loading"
    /\ dbOpen = FALSE
    /\ searchInput = <<>>
    /\ disabled = TRUE
    /\ jikeiOptions = <<>>
    /\ selectedJikei = <<>>
    /\ searchTimeout = 0
    /\ applyingUrlState = FALSE
    /\ timers = {}
    /\ shown = NotShown

(***************************************************************************)
(* The search, as one step from the request to the grouped result.         *)
(***************************************************************************)
Init ==
    /\ PageAtConstruction
    /\ url = NoUrl
    /\ db \in Stores
    /\ query \in Queries
    /\ jikeiFilters \in FilterLists
    /\ pc = "idle"
    /\ fieldRows = NoResults
    /\ result = NoResults
    /\ rankGroup = "none"
    /\ ranked = <<>>

Search ==
    /\ pc = "idle"
    /\ pc' = "searched"
    /\ fieldRows' = queryRows(db, query, jikeiFilters)
    /\ result' = searchEntries(db, query, jikeiFilters)
    /\ UNCHANGED <<db, query, jikeiFilters, rankGroup, ranked>>
    /\ UNCHANGED pageVars

Next == Search

Spec == Init /\ [][Next]_vars

(***************************************************************************)
(* Segments, match index and ranking, as the client's search notes state   *)
(* them (Matching Rules, Sorting Rules).                                   *)
(***************************************************************************)
startsWith(text, v) == Len(v) <= Len(text) /\ SubSeq(text, 1, Len(v)) = v

MinOf(set) == CHOOSE x \in set : \A y \in set : x <= y

\* the match index of a reading no segment of which matches (Infinity)
NoMatch == 1000000

\* text without its runs in full-width or ASCII parentheses; an opening
\* parenthesis that is never closed stays
RECURSIVE stripParens(_)
stripParens(text) ==
    LET closes(i) ==
            IF text[i] = Ch.fwLparen
            THEN { j \in (i + 1) .. Len(text) : text[j] = Ch.fwRparen }
            ELSE IF text[i] = Ch.lparen
            THEN { j \in (i + 1) .. Len(text) : text[j] = Ch.rparen }
            ELSE {}
        opens == { i \in DOMAIN text : closes(i) # {} }
    IN IF opens = {} THEN text
       ELSE LET i == MinOf(opens)
                j == MinOf(closes(i))
            IN SubSeq(text, 1, i - 1) \o stripParens(SubSeq(text, j + 1, Len(text)))

normalizeSegment(text) == trim(stripParens(text))

\* the pieces of a reading between the delimiters U+30FB
RECURSIVE splitOnDelimiter(_)
splitOnDelimiter(text) ==
    LET dots == { i \in DOMAIN text : text[i] = Ch.middleDot }
    IN IF dots = {} THEN <<text>>
       ELSE LET i == MinOf(dots)
            IN <<SubSeq(text, 1, i - 1)>> \o splitOnDelimiter(SubSeq(text, i + 1, Len(text)))

splitSegments(field) ==
    LET parts == splitOnDelimiter(field)
    IN SelectSeq([ i \in DOMAIN parts |-> normalizeSegment(parts[i]) ],
                 LAMBDA seg : Len(seg) > 0)

\* 0-based index of the first segment that starts with a variant
matchIndex(field, variants) ==
    LET segs == splitSegments(field)
        hits == { i \in DOMAIN segs :
                    \E k \in DOMAIN variants :
                        Len(variants[k]) > 0 /\ startsWith(segs[i], variants[k]) }
    IN IF hits = {} THEN NoMatch ELSE MinOf(hits) - 1

Groups == {"keyword", "jion", "jikun"}

primaryField(group) == IF group = "jikun" THEN "jikun" ELSE "jion"

secondaryField(group) == IF group = "jikun" THEN "jion" ELSE "jikun"

\* collation of two different reading texts, an empty one last
textBefore(a, b) ==
    IF Len(a) = 0 THEN FALSE
    ELSE IF Len(b) = 0 THEN TRUE
    ELSE strLess(a, b)

\* the comparator with the last key compared by <= instead of <
rankLess_IdLeq(a, b, group, variants) ==
    LET pa == matchIndex(a[primaryField(group)], variants)
        pb == matchIndex(b[primaryField(group)], variants)
        sa == matchIndex(a[secondaryField(group)], variants)
        sb == matchIndex(b[secondaryField(group)], variants)
    IN IF pa # pb THEN pa < pb
       ELSE IF sa # sb THEN sa < sb
       ELSE IF a.jion # b.jion THEN textBefore(a.jion, b.jion)
       ELSE IF a.jikun # b.jikun THEN textBefore(a.jikun, b.jikun)
       ELSE a.id <= b.id

\* a sorts before b in the group: primary match index, secondary match
\* index, jion (empty last), jikun (empty last), id
rankLess(a, b, group, variants) ==
    LET pa == matchIndex(a[primaryField(group)], variants)
        pb == matchIndex(b[primaryField(group)], variants)
        sa == matchIndex(a[secondaryField(group)], variants)
        sb == matchIndex(b[secondaryField(group)], variants)
    IN IF pa # pb THEN pa < pb
       ELSE IF sa # sb THEN sa < sb
       ELSE IF a.jion # b.jion THEN textBefore(a.jion, b.jion)
       ELSE IF a.jikun # b.jikun THEN textBefore(a.jikun, b.jikun)
       ELSE a.id < b.id

\* the rows sorted with the comparator
RECURSIVE rankRows(_, _, _)
rankRows(rows, group, variants) ==
    IF rows = {} THEN <<>>
    ELSE LET first == CHOOSE r \in rows :
                          \A o \in rows \ {r} : ~ rankLess(o, r, group, variants)
         IN <<first>> \o rankRows(rows \ {first}, group, variants)

\* the comparator applied to the rows of a store as the rows of one group
Rank(group) ==
    /\ pc = "idle"
    /\ pc' = "ranked"
    /\ rankGroup' = group
    /\ ranked' = rankRows(db, group, buildQueryVariants(query))
    /\ UNCHANGED <<db, query, jikeiFilters, fieldRows, result>>
    /\ UNCHANGED pageVars

NextRank == \E group \in Groups : Rank(group)

SpecRank == Init /\ [][NextRank]_vars

(***************************************************************************)
(* The page: init, the URL state, the debounced search (main.ts).          *)
(***************************************************************************)
RECURSIVE sortTexts(_)
sortTexts(texts) ==
    IF texts = {} THEN <<>>
    ELSE LET first == CHOOSE t \in texts : \A o \in texts \ {t} : strLess(t, o)
         IN <<first>> \o sortTexts(texts \ {first})

\* getJikeiOptions selecting the whole jikei column
getJikeiOptions_NoTruncate(store) ==
    sortTexts({ e.jikei : e \in { x \in store : x.jikei # <<>> } })

\* SELECT DISTINCT substr(jikei, 1, 2) ... WHERE jikei != '' ORDER BY jikei,
\* rows with an empty value skipped
getJikeiOptions(store) ==
    sortTexts({ t \in { substr2(e.jikei) : e \in { x \in store : x.jikei # <<>> } } :
                  Len(t) > 0 })

\* params.get('q') ?? '' and params.getAll('k')
readUrlState(u) ==
    [ query |-> IF Len(u.q) > 0 THEN u.q[1] ELSE <<>>, filters |-> u.k ]

\* q is set or deleted, k is deleted and appended once per filter
writeUrlState(u, q, filters, applying) ==
    IF applying THEN u
    ELSE [ q |-> IF Len(q) > 0 THEN <<q>> ELSE <<>>, k |-> filters ]

\* the input value and the selected set applyUrlState leaves
applyUrlState(u, options) ==
    LET st == readUrlState(u)
        normalized == [ i \in DOMAIN st.filters |->
                          IF st.filters[i] = S.ryakutai THEN S.kokuji ELSE st.filters[i] ]
    IN [ value |-> st.query,
         selected |-> Dedup(SelectSeq(normalized, LAMBDA f : f \in Range(options))) ]

\* expandJikeiFilters returning its argument
expandJikeiFilters_Identity(filters) == filters

expandJikeiFilters(filters) ==
    IF S.kokuji \notin Range(filters) THEN filters
    ELSE Dedup(Append(filters, S.ryakutai))

\* an id setTimeout has not handed to a pending timeout nor to the last one
freshTimer(pending, last) ==
    MinOf({ n \in 1 .. (Cardinality(pending) + 2) : n \notin pending \cup {last} })

\* scheduleSearch without the clearTimeout
scheduleSearch_NoClear(open, timeout, pending) ==
    IF ~ open THEN [ searchTimeout |-> timeout, timers |-> pending ]
    ELSE LET id == freshTimer(pending, timeout)
         IN [ searchTimeout |-> id, timers |-> pending \cup {id} ]

\* searchTimeout and the pending timeouts after scheduleSearch()
scheduleSearch(open, timeout, pending) ==
    IF ~ open THEN [ searchTimeout |-> timeout, timers |-> pending ]
    ELSE LET cleared == IF timeout # 0 THEN pending \ {timeout} ELSE pending
             id == freshTimer(cleared, timeout)
         IN [ searchTimeout |-> id, timers |-> cleared \cup {id} ]

\* the empty state or the three groups runSearch() renders for a result
rendered(q, selected, filters, found) ==
    [ kind |-> IF Len(found.keyword) + Len(found.jion) + Len(found.jikun) = 0
               THEN "empty" ELSE "results",
      query |-> q, selected |-> selected, filters |-> filters, result |-> found ]

\* what runSearch() renders for a trimmed query and the expanded filters
searched(store, q, selected, filters, u, applying) ==
    IF Len(q) = 0 /\ Len(filters) = 0
    THEN [ shown |-> [ kind |-> "prompt", query |-> q, selected |-> selected,
                       filters |-> filters, result |-> NoResults ],
           url |-> writeUrlState(u, <<>>, <<>>, applying) ]
    ELSE [ shown |-> rendered(q, selected, filters, searchEntries(store, q, filters)),
           url |-> writeUrlState(u, q, filters, applying) ]

\* what runSearch() renders and the URL it leaves
runSearch(open, store, value, selected, u, applying, before) ==
    IF ~ open THEN [ shown |-> before, url |-> u ]
    ELSE searched(store, trim(value), selected, expandJikeiFilters(selected), u, applying)

\* searchInput.disabled after init() has caught a failed load
disabledAfterFailure_Enabled == FALSE

disabledAfterFailure == TRUE

\* the listeners init() registers after the load
listening == phase = "ready"

\* the text the user can type and the URLs the history can hold
TypedQueries == { S.empty, S.ka, S.kanPadded }

UrlStates ==
    { NoUrl,
      [ q |-> <<S.KAN>>, k |-> <<S.ryakutai>> ],
      [ q |-> <<>>, k |-> <<S.kokuji, S.kokujiLong>> ] }

InitPage ==
    /\ db \in Stores
    /\ query = <<>>
    /\ jikeiFilters = <<>>
    /\ pc = "idle"
    /\ fieldRows = NoResults
    /\ result = NoResults
    /\ rankGroup = "none"
    /\ ranked = <<>>
    /\ PageAtConstruction
    /\ url \in UrlStates

\* the page takes what runSearch() rendered and wrote
Shows(ran) ==
    /\ shown' = ran.shown
    /\ url' = ran.url

\* the page takes the timeout scheduleSearch() left
Schedules(sched) ==
    /\ searchTimeout' = sched.searchTimeout
    /\ timers' = sched.timers

\* applyUrlState(); renderFilters(); runSearch()
Restores(applied, u, open) ==
    /\ searchInput' = applied.value
    /\ selectedJikei' = applied.selected
    /\ Shows(runSearch(open, db, applied.value, applied.selected, u, FALSE, shown))

\* init(): loadDatabase resolved
LoadOk ==
    /\ phase = "loading"
    /\ phase' = "ready"
    /\ dbOpen' = TRUE
    /\ jikeiOptions' = getJikeiOptions(db)
    /\ Restores(applyUrlState(url, jikeiOptions'), url, TRUE)
    /\ disabled' = FALSE
    /\ UNCHANGED <<searchTimeout, applyingUrlState, timers>>
    /\ UNCHANGED engineVars

\* init(): loadDatabase threw
LoadFail ==
    /\ phase = "loading"
    /\ phase' = "failed"
    /\ disabled' = disabledAfterFailure
    /\ UNCHANGED <<dbOpen, searchInput, jikeiOptions, selectedJikei, searchTimeout,
                   applyingUrlState, timers, url, shown>>
    /\ UNCHANGED engineVars

\* the user edits the search input
InputEvent(value) ==
    /\ ~ disabled
    /\ searchInput' = value
    /\ Schedules(IF listening THEN scheduleSearch(dbOpen, searchTimeout, timers)
                 ELSE [ searchTimeout |-> searchTimeout, timers |-> timers ])
    /\ UNCHANGED <<phase, dbOpen, disabled, jikeiOptions, selectedJikei,
                   applyingUrlState, url, shown>>
    /\ UNCHANGED engineVars

\* the user toggles the checkbox renderFilters made for an option
FilterChange(option) ==
    /\ option \in Range(jikeiOptions)
    /\ selectedJikei' = IF option \in Range(selectedJikei)
                        THEN SelectSeq(selectedJikei, LAMBDA f : f # option)
                        ELSE Append(selectedJikei, option)
    /\ Schedules(scheduleSearch(dbOpen, searchTimeout, timers))
    /\ UNCHANGED <<phase, dbOpen, searchInput, disabled, jikeiOptions,
                   applyingUrlState, url, shown>>
    /\ UNCHANGED engineVars

\* the user clicks the button that clears the filters
ClearClick ==
    /\ listening
    /\ selectedJikei' = <<>>
    /\ Schedules(scheduleSearch(dbOpen, searchTimeout, timers))
    /\ UNCHANGED <<phase, dbOpen, searchInput, disabled, jikeiOptions, applyingUrlState,
                   url, shown>>
    /\ UNCHANGED engineVars

\* the history moves to an entry with the URL u; the listener, once init()
\* has registered it, applies the URL and searches
PopState(u) ==
    /\ IF listening
       THEN Restores(applyUrlState(u, jikeiOptions), u, dbOpen)
       ELSE /\ url' = u
            /\ UNCHANGED <<searchInput, selectedJikei, shown>>
    /\ UNCHANGED <<phase, dbOpen, disabled, jikeiOptions, searchTimeout,
                   applyingUrlState, timers>>
    /\ UNCHANGED engineVars

\* a pending timeout fires and calls runSearch()
Timeout(id) ==
    /\ id \in timers
    /\ timers' = timers \ {id}
    /\ Shows(runSearch(dbOpen, db, searchInput, selectedJikei, url, applyingUrlState, shown))
    /\ UNCHANGED <<phase, dbOpen, searchInput, disabled, jikeiOptions, selectedJikei,
                   searchTimeout, applyingUrlState>>
    /\ UNCHANGED engineVars

NextPage ==
    \/ LoadOk
    \/ LoadFail
    \/ \E value \in TypedQueries : InputEvent(value)
    \/ \E option \in Labels : FilterChange(option)
    \/ ClearClick
    \/ \E u \in UrlStates : PopState(u)
    \/ \E id \in timers : Timeout(id)

SpecPage == InitPage /\ [][NextPage]_vars

(***************************************************************************)
(* Helpers of the properties.                                              *)
(***************************************************************************)

contains(text, v) ==
    \E i \in 1 .. (Len(text) - Len(v) + 1) : SubSeq(text, i, i + Len(v) - 1) = v

isIdeograph(c) == c >= Ch.cjkFirst /\ c <= Ch.cjkLast

AllRows(r) == r.keyword \o r.jion \o r.jikun

IdSeq(rows) == [ i \in DOMAIN rows |-> rows[i].id ]

Variants == buildQueryVariants(query)

Searched == pc = "searched"

\* C1: no entry id appears in two groups of the result, nor twice in one group
C1_UniqueIds ==
    LET all == AllRows(result)
    IN \A i, j \in DOMAIN all : i # j => all[i].id # all[j].id

\* an entry found by the keyword query and by the jion query, after the search
C1_Witness ==
    /\ Searched
    /\ Ids(fieldRows.keyword) \cap Ids(fieldRows.jion) # {}
    /\ Len(AllRows(result)) > 1

\* C2: with a non-empty filter list no entry with an empty formClass (jikei)
\* is in any group of the result
C2_NoEmptyFormClass ==
    Len(jikeiFilters) > 0 =>
        \A i \in DOMAIN AllRows(result) : Len(AllRows(result)[i].jikei) > 0

\* a filtered search with results, where an entry with empty jikei matches the query
C2_Witness ==
    /\ Searched
    /\ Len(jikeiFilters) > 0
    /\ Len(AllRows(result)) > 0
    /\ \E e \in db : /\ Len(e.jikei) = 0
                     /\ e.id \in Ids(AllRows(searchEntries(db, query, <<>>)))

\* C3: with an empty trimmed query and a non-empty filter list the search
\* returns in the keyword group the entries whose two-character formClass is a
\* filter label, and empty jion and jikun groups
C3_FilterOnly ==
    (Searched /\ Len(trim(query)) = 0 /\ Len(jikeiFilters) > 0) =>
        /\ Ids(result.keyword) = { e.id : e \in { x \in db : substr2(x.jikei) \in Range(jikeiFilters) } }
        /\ result.jion = <<>>
        /\ result.jikun = <<>>

\* C4: an entry is a candidate of a reading field exactly when the reading
\* starts with a variant or holds the delimiter U+30FB followed by a variant
C4_ReadingCandidates ==
    Searched =>
        \A f \in {"jion", "jikun"} : \A e \in db :
            (Len(Variants) > 0 /\ passesFilter(e, jikeiFilters)) =>
                ( e.id \in Ids(fieldRows[f])
                  <=> \E k \in DOMAIN Variants :
                          \/ startsWith(e[f], Variants[k])
                          \/ contains(e[f], <<Ch.middleDot>> \o Variants[k]) )

\* C5 as stated: an entry is a candidate of the keyword field whenever a
\* variant occurs anywhere in its keyword
C5_HeadwordSubstring ==
    Searched =>
        \A e \in db :
            ( /\ passesFilter(e, jikeiFilters)
              /\ \E k \in DOMAIN Variants : contains(e.keyword, Variants[k]) )
            => e.id \in Ids(fieldRows.keyword)

\* C5 as amended: an entry is a candidate of the keyword field whenever its
\* keyword starts with a variant (unless the query's row limit cut the list)
C5_HeadwordPrefix ==
    (Searched /\ Len(fieldRows.keyword) < Limit) =>
        \A e \in db :
            ( /\ passesFilter(e, jikeiFilters)
              /\ \E k \in DOMAIN Variants : startsWith(e.keyword, Variants[k]) )
            => e.id \in Ids(fieldRows.keyword)

\* a keyword longer than the variant it starts with is a keyword candidate
C5_Witness ==
    /\ Searched
    /\ \E e \in db : \E k \in DOMAIN Variants :
          /\ startsWith(e.keyword, Variants[k])
          /\ Len(e.keyword) > Len(Variants[k])
          /\ e.id \in Ids(fieldRows.keyword)

isHiraganaQuery(q) ==
    /\ Len(q) > 0
    /\ \A i \in DOMAIN q : q[i] >= Ch.hiraFirst /\ q[i] <= Ch.hiraLast

\* C6: a hiragana query and its katakana transliteration give the same three
\* groups, in the same order, for the same store and filters
C6_ScriptSymmetry ==
    (Searched /\ isHiraganaQuery(query)) =>
        result = searchEntries(db, toKatakana(query), jikeiFilters)

\* a hiragana query that finds entries by a katakana and by a hiragana reading
C6_Witness ==
    /\ Searched
    /\ isHiraganaQuery(query)
    /\ Len(result.jion) > 0
    /\ Len(result.jikun) > 0

ideographs(q) == SelectSeq(q, isIdeograph)

\* the token list of a query: the query, then its distinct ideographs when
\* it holds two or more
Tokens(q) ==
    IF Len(ideographs(q)) >= 2
    THEN <<q>> \o [ i \in DOMAIN Dedup(ideographs(q)) |-> <<Dedup(ideographs(q))[i]>> ]
    ELSE <<q>>

\* C7: for a query with two or more ideographs the result holds the hits of
\* every token (the query, then each distinct ideograph), each id once, the
\* hits of the full query before the hits of the single ideographs
C7_MultiKanji ==
    (Searched /\ Len(ideographs(trim(query))) >= 2) =>
        LET toks == Tokens(trim(query))
            full == Ids(AllRows(searchEntries(db, toks[1], jikeiFilters)))
            all == AllRows(result)
        IN /\ \A t \in DOMAIN toks :
                  Ids(AllRows(searchEntries(db, toks[t], jikeiFilters))) \subseteq Ids(all)
           /\ \A i, j \in DOMAIN all : i # j => all[i].id # all[j].id
           /\ \A g \in Groups : \A i, j \in DOMAIN result[g] :
                  (i < j /\ result[g][j].id \in full) => result[g][i].id \in full

\* C8: a keyword match with a glyph image and no ideograph in its keyword is
\* in the jion group if its jion has a segment-prefix match, else in the
\* jikun group if its jikun has one, else in the keyword group
C8_GaijiReclassified ==
    Searched =>
        \A i \in DOMAIN fieldRows.keyword :
            LET r == fieldRows.keyword[i]
            IN (r.gaiji_img_src # "" /\ \A k \in DOMAIN r.keyword : ~ isIdeograph(r.keyword[k]))
               => IF matchIndex(r.jion, Variants) < NoMatch THEN r.id \in Ids(result.jion)
                  ELSE IF matchIndex(r.jikun, Variants) < NoMatch THEN r.id \in Ids(result.jikun)
                  ELSE r.id \in Ids(result.keyword)

\* C9: each group is in ascending order of its primary match index, and for
\* the query hiragana "ka n" without filters the entries 1 (jion "KAN.GAN")
\* and 2 (jion "AN.KAN") are both in the jion group, 1 before 2
C9_RankedByMatchIndex ==
    Searched =>
        /\ \A g \in Groups : \A i, j \in DOMAIN result[g] :
              i < j => matchIndex(result[g][i][primaryField(g)], Variants)
                         <= matchIndex(result[g][j][primaryField(g)], Variants)
        /\ ( /\ query = S.kan
             /\ jikeiFilters = <<>>
             /\ {1, 2} \subseteq { e.id : e \in db } )
           => \E i, j \in DOMAIN result.jion :
                  i < j /\ result.jion[i].id = 1 /\ result.jion[j].id = 2

RankedLess(a, b) == rankLess(a, b, rankGroup, Variants)

\* C10: the comparator is a strict weak ordering on the rows it ranked:
\* irreflexive, transitive, and with a transitive incomparability
C10_StrictWeakOrder ==
    pc = "ranked" =>
        \A a, b, c \in Range(ranked) :
            /\ ~ RankedLess(a, a)
            /\ (RankedLess(a, b) /\ RankedLess(b, c)) => RankedLess(a, c)
            /\ ( /\ ~ RankedLess(a, b) /\ ~ RankedLess(b, a)
                 /\ ~ RankedLess(b, c) /\ ~ RankedLess(c, b) )
               => (~ RankedLess(a, c) /\ ~ RankedLess(c, a))

\* three ranked rows, the first two ordered by the primary match index and
\* the last two by a fallback key
C10_Witness ==
    /\ pc = "ranked"
    /\ Len(ranked) = 3
    /\ RankedLess(ranked[1], ranked[2])
    /\ RankedLess(ranked[2], ranked[3])
    /\ matchIndex(ranked[1][primaryField(rankGroup)], Variants)
         < matchIndex(ranked[2][primaryField(rankGroup)], Variants)
    /\ matchIndex(ranked[2][primaryField(rankGroup)], Variants)
         = matchIndex(ranked[3][primaryField(rankGroup)], Variants)
    /\ matchIndex(ranked[2][secondaryField(rankGroup)], Variants)
         = matchIndex(ranked[3][secondaryField(rankGroup)], Variants)

\* the orderings of a list of distinct labels
Orderings(list) ==
    { p \in [ DOMAIN list -> Range(list) ] : Range(p) = Range(list) }

\* C11: the grouped result does not depend on the order of the filter labels
C11_FilterOrder ==
    Searched => \A p \in Orderings(jikeiFilters) : result = searchEntries(db, query, p)

\* a search with two labels whose result holds an entry of the second label
C11_Witness ==
    /\ Searched
    /\ Len(jikeiFilters) = 2
    /\ \E i \in DOMAIN AllRows(result) : AllRows(result)[i].jikei = jikeiFilters[2]

\* C13: an empty trimmed query with an empty filter list gives three empty groups
C13_NothingToSearch ==
    (Searched /\ Len(trim(query)) = 0 /\ Len(jikeiFilters) = 0) => result = NoResults

\* a blank query without filters searched in a store that has rows
C13_Witness ==
    /\ Searched
    /\ query = S.blank
    /\ Len(jikeiFilters) = 0
    /\ db # {}

shiftRange(text, first, last, delta) ==
    [ i \in DOMAIN text |->
        IF first <= text[i] /\ text[i] <= last THEN text[i] + delta ELSE text[i] ]

\* C17: the variants are exactly the distinct non-empty texts among the
\* trimmed query, its hiragana shifted by +0x60 and its katakana shifted by
\* -0x60, each once; none for a query that is empty after trimming
C17_Variants ==
    Searched =>
        LET t == trim(query)
        IN /\ Len(t) = 0 => Variants = <<>>
           /\ Len(t) > 0 =>
                 Range(Variants) =
                    { t, shiftRange(t, 12353, 12438, 96), shiftRange(t, 12449, 12534, -96) }
           /\ \A i, j \in DOMAIN Variants : i # j => Variants[i] # Variants[j]
           /\ \A i \in DOMAIN Variants : Len(Variants[i]) > 0

\* a query without kana has one variant, a padded kana query has two
C17_Witness ==
    /\ Searched
    /\ \/ query = S.kanPadded /\ Len(Variants) = 2
       \/ query = S.yu /\ Len(Variants) = 1

\* a search the page has run and rendered
Ran == shown.kind \in {"empty", "results"}

\* the entries of the store a search for q finds when no filter is selected
unfiltered(q) == AllRows(searchEntries(db, q, <<>>))

\* C12: when the selected labels contain the label kokuji, the filters handed
\* to the search also contain ryakutai, and every entry of class ryakutai the
\* query finds is in the result; without kokuji the selected labels are
\* handed over unchanged
C12_KokujiAlias ==
    Ran =>
        /\ S.kokuji \in Range(shown.selected) =>
               /\ S.ryakutai \in Range(shown.filters)
               /\ Range(shown.selected) \subseteq Range(shown.filters)
               /\ \A i \in DOMAIN unfiltered(shown.query) :
                      unfiltered(shown.query)[i].jikei = S.ryakutai =>
                          unfiltered(shown.query)[i].id \in Ids(AllRows(shown.result))
        /\ S.kokuji \notin Range(shown.selected) => shown.filters = shown.selected

C12_Witness ==
    /\ Ran
    /\ shown.selected = <<S.kokuji>>
    /\ \E i \in DOMAIN shown.result.keyword : shown.result.keyword[i].jikei = S.ryakutai

\* what runSearch() would render for the input and the selection as they are
current ==
    runSearch(dbOpen, db, searchInput, selectedJikei, url, applyingUrlState, shown).shown

\* C14: at most one scheduled search is pending, it is the one scheduled last,
\* and once none is pending the page shows the search for the query and the
\* filters as they are now, never the result of an input since replaced
C14_Debounce ==
    /\ Cardinality(timers) <= 1
    /\ timers \subseteq {searchTimeout}
    /\ (listening /\ timers = {}) =>
           /\ shown.query = trim(searchInput)
           /\ shown.selected = selectedJikei
           /\ shown = current

C14_Witness ==
    /\ listening
    /\ timers = {}
    /\ searchTimeout = 2
    /\ shown.kind = "results"
    /\ shown.query = S.kan
    /\ shown.selected # <<>>

\* the truncated form classes of the entries whose form class is not empty
labelsOf(store) == { substr2(e.jikei) : e \in { x \in store : x.jikei # <<>> } }

\* C15: the filter options are the non-empty truncated form classes of the
\* store, each once and in ascending order, and each option is a value the
\* filter compares with: an entry passes the filter of one option exactly
\* when its truncated form class is that option, and some entry does
C15_Options ==
    listening =>
        /\ Range(jikeiOptions) = labelsOf(db)
        /\ \A i, j \in DOMAIN jikeiOptions :
               i < j => strLess(jikeiOptions[i], jikeiOptions[j])
        /\ \A i \in DOMAIN jikeiOptions :
               /\ \A e \in db : passesFilter(e, <<jikeiOptions[i]>>)
                                    <=> substr2(e.jikei) = jikeiOptions[i]
               /\ \E e \in db : passesFilter(e, <<jikeiOptions[i]>>)

C15_Witness ==
    /\ listening
    /\ jikeiOptions = <<S.kokuji, S.ryakutai>>
    /\ \E e \in db : e.jikei = S.kokujiLong
    /\ \E e \in db : e.jikei = S.kokuji

\* the input value and the selection applyUrlState() restores from the URL
restored == applyUrlState(url, jikeiOptions)

\* C18: once runSearch() has written the URL, applying the URL restores the
\* trimmed query and exactly the selected labels of the search that wrote it,
\* so the next search is handed the same filters
C18_UrlRoundTrip ==
    shown.kind # "none" =>
        /\ trim(restored.value) = shown.query
        /\ Range(restored.selected) = Range(shown.selected)
        /\ Range(expandJikeiFilters(restored.selected)) = Range(shown.filters)

\* C19: while the database handle is null, before the load resolves and for
\* ever after it fails, no search has run or is scheduled whatever events
\* arrive, and the search input is disabled
C19_NoSearchWithoutDb ==
    /\ phase = "failed" => ~ dbOpen
    /\ ~ dbOpen =>
           /\ disabled
           /\ timers = {}
           /\ searchTimeout = 0
           /\ shown = NotShown
           /\ searchInput = <<>>
           /\ selectedJikei = <<>>

C19_Witness ==
    /\ phase = "failed"
    /\ ~ dbOpen
    /\ disabled
    /\ url # NoUrl
    /\ shown = NotShown

=============================================================================
